---- MODULE Spec2Model ----
(***************************************************************************)
(* Batched Kalman filter kernels of cusignal/estimation/_filters.py:       *)
(* the Numba and CuPy predict/update kernels at thread level, the          *)
(* small-matrix inverse, and the kernel cache.                             *)
(*                                                                         *)
(* Numbers.  The kernels compute in float32/float64.  The model computes   *)
(* in exact rationals <<n, d>> (d > 0, lowest terms) extended with the     *)
(* three IEEE specials +Inf = <<1,0>>, -Inf = <<-1,0>>, NaN = <<0,0>>, so  *)
(* that a division by zero yields a non-finite value that propagates.      *)
(* Rounding and the sign of zero are not modelled.                         *)
(***************************************************************************)
EXTENDS Integers, Sequences, FiniteSets, Bags, TLC

VARIABLES
    \* ---- small-matrix inverse, applied to one scratch tile
    inv_dim_z,      \* DIM_Z of the specialisation
    inv_S,          \* the scratch tile s_B[idx ..] before the inverse step
    inv_B,          \* the scratch tile after the inverse step
    inv_pc,         \* "S": not inverted yet; "numba" / "cupy": inverted by
    \* ---- kernel selection and cache
    numba_kernel_cache,   \* _numba_kernel_cache: (type name, kind) -> kernel
    cupy_kernel_cache,    \* _cupy_kernel_cache: (type name, kind) -> kernel
    built,                \* history: the build requests that succeeded
    call,                 \* the last call and its outcome
    \* ---- one kernel launch, at thread level
    launch,         \* kernel, backend, dim_x, dim_z, N, blockDim.z, gridDim.z
    pc,             \* thread -> the statement it executes next
    z_idx,          \* thread -> its grid-stride loop variable (z_idx / tid_z)
    mem             \* run -> the memory of the launch: the global buffers,
                    \* each block's shared memory, each thread's register
                    \* temp, the backend whose kernel runs on it, and the
                    \* history of its stores to state and P

inv_vars == <<inv_dim_z, inv_S, inv_B, inv_pc>>
cache_vars == <<numba_kernel_cache, cupy_kernel_cache, built, call>>
kern_vars == <<launch, pc, z_idx, mem>>
vars == <<inv_vars, cache_vars, kern_vars>>

----------------------------------------------------------------------------
(* Floating-point values as extended rationals. *)

Abs(n) == IF n < 0 THEN -n ELSE n

Sgn(n) == IF n < 0 THEN -1 ELSE IF n = 0 THEN 0 ELSE 1

RECURSIVE GCD(_, _)
GCD(a, b) == IF b = 0 THEN a ELSE GCD(b, a % b)

\* n/d with d > 0, in lowest terms
\* numerators and denominators the model represents exactly; a result outside
\* this range is not tracked and becomes NaN, which every later operation
\* propagates
MaxMagnitude == 16384

Norm(n, d) ==
    LET g == GCD(Abs(n), d)
    IN  IF Abs(n \div g) > MaxMagnitude \/ d \div g > MaxMagnitude
        THEN <<0, 0>>
        ELSE <<n \div g, d \div g>>

Zero == <<0, 1>>
One == <<1, 1>>
NaN == <<0, 0>>
Inf(s) == <<s, 0>>
Int2F(n) == <<n, 1>>

IsFinite(a) == a[2] # 0
IsNaN(a) == a = NaN
IsInf(a) == a[2] = 0 /\ a[1] # 0

FNeg(a) == <<-a[1], a[2]>>

FAdd(a, b) ==
    IF IsNaN(a) \/ IsNaN(b) THEN NaN
    ELSE IF IsInf(a) /\ IsInf(b) THEN (IF a = b THEN a ELSE NaN)
    ELSE IF IsInf(a) THEN a
    ELSE IF IsInf(b) THEN b
    ELSE Norm(a[1] * b[2] + b[1] * a[2], a[2] * b[2])

FSub(a, b) == FAdd(a, FNeg(b))

FMul(a, b) ==
    IF IsNaN(a) \/ IsNaN(b) THEN NaN
    ELSE IF IsInf(a) \/ IsInf(b)
         THEN (IF a[1] = 0 \/ b[1] = 0 THEN NaN ELSE Inf(Sgn(a[1]) * Sgn(b[1])))
    ELSE Norm(a[1] * b[1], a[2] * b[2])

\* a division that returns 0 for a zero divisor
FDiv_ZeroGuarded(a, b) ==
    IF IsNaN(a) \/ IsNaN(b) THEN NaN
    ELSE IF IsInf(a) THEN (IF IsInf(b) THEN NaN
                           ELSE Inf(a[1] * (IF b[1] < 0 THEN -1 ELSE 1)))
    ELSE IF IsInf(b) THEN Zero
    ELSE IF b[1] = 0 THEN Zero
    ELSE Norm(a[1] * b[2] * Sgn(b[1]), a[2] * Abs(b[1]))

FDiv(a, b) ==
    IF IsNaN(a) \/ IsNaN(b) THEN NaN
    ELSE IF IsInf(a) THEN (IF IsInf(b) THEN NaN
                           ELSE Inf(a[1] * (IF b[1] < 0 THEN -1 ELSE 1)))
    ELSE IF IsInf(b) THEN Zero
    ELSE IF b[1] = 0 THEN (IF a[1] = 0 THEN NaN ELSE Inf(Sgn(a[1])))
    ELSE Norm(a[1] * b[2] * Sgn(b[1]), a[2] * Abs(b[1]))

\* sum of f[j] for j in 0..n-1, accumulated in loop order from temp = 0
RECURSIVE FSum(_, _)
FSum(f, n) == IF n = 0 THEN Zero ELSE FAdd(FSum(f, n - 1), f[n - 1])

----------------------------------------------------------------------------
(* Small-matrix inverse.  B is the scratch tile of one instance, read as    *)
(* B[i] = s_B[idx + i].                                                     *)

\* const int sign { ((tx + ty) % 2 == 0) ? 1 : -1 }
Sign(x, y) == IF (x + y) % 2 = 0 THEN 1 ELSE -1

\* _numba_update, "Compute linalg.inv(S), hardcoded for 2x2": the value
\* thread (x, y) stores at s_B[xx_idx + x * dim_z + y]
NumbaInverseEntry(B, dim_z, x, y) ==
    LET sign_det == FMul(Int2F(Sign(x, y)),
                         FSub(FMul(B[0 * dim_z + 0], B[1 * dim_z + 1]),
                              FMul(B[1 * dim_z + 0], B[0 * dim_z + 1])))
    IN  FDiv(B[(dim_z - 1 - x) * dim_z + (dim_z - 1 - y)], sign_det)

\* the determinant the CuPy inverse<T, DIM_Z> computes (T determinant {} = 0;
\* the else branch assigns it the sign and never uses it)
CupyDeterminant(B, DIM_Z, tx, ty) ==
    IF DIM_Z = 2
    THEN FSub(FMul(B[0 * DIM_Z + 0], B[1 * DIM_Z + 1]),
              FMul(B[1 * DIM_Z + 0], B[0 * DIM_Z + 1]))
    ELSE IF DIM_Z = 3
    THEN FSum([i \in 0..(DIM_Z - 1) |->
                 FMul(B[0 * DIM_Z + i],
                      FSub(FMul(B[1 * DIM_Z + ((i + 1) % DIM_Z)],
                                B[2 * DIM_Z + ((i + 2) % DIM_Z)]),
                           FMul(B[1 * DIM_Z + ((i + 2) % DIM_Z)],
                                B[2 * DIM_Z + ((i + 1) % DIM_Z)])))], DIM_Z)
    ELSE Int2F(Sign(tx, ty))

\* template<typename T, int DIM_Z> __device__ T inverse(idx, tx, ty, s_B):
\* the value returned to thread (tx, ty); T temp {} is zero unless a branch
\* assigns it
inverse(B, DIM_Z, tx, ty) ==
    LET determinant == CupyDeterminant(B, DIM_Z, tx, ty)
        signed == FMul(determinant, Int2F(Sign(tx, ty)))
    IN  IF DIM_Z = 2
        THEN FDiv(B[((tx + 1) % DIM_Z) * DIM_Z + ((ty + 1) % DIM_Z)], signed)
        ELSE IF DIM_Z = 3
        THEN FDiv(FSub(FMul(B[((tx + 1) % DIM_Z) * DIM_Z + ((ty + 1) % DIM_Z)],
                            B[((tx + 2) % DIM_Z) * DIM_Z + ((ty + 2) % DIM_Z)]),
                       FMul(B[((tx + 1) % DIM_Z) * DIM_Z + ((ty + 2) % DIM_Z)],
                            B[((tx + 2) % DIM_Z) * DIM_Z + ((ty + 1) % DIM_Z)])),
                  signed)
        ELSE Zero

\* ---- the inverse step applied to a tile, every thread reading the tile
\* ---- before any thread stores its entry

MaxEntry == 2
Entries == {Int2F(e) : e \in 0..MaxEntry}
\* a tile of DIM_X * DIM_X cells with DIM_X = 3, the largest DIM_Z x DIM_Z
TileCells == 0..8
\* the cells the inverse step of a specialisation reads or writes
UsedCells(dim_z) == IF dim_z = 3 THEN TileCells
                    ELSE IF dim_z = 2 THEN 0..3 ELSE 0..2

InvInit ==
    /\ inv_dim_z \in 1..3
    /\ inv_S \in [TileCells -> Entries]
    /\ \A i \in TileCells \ UsedCells(inv_dim_z) : inv_S[i] = Zero
    /\ inv_B = inv_S
    /\ inv_pc = "S"

InvIdle ==
    /\ inv_dim_z = 1
    /\ inv_S = [i \in TileCells |-> Zero]
    /\ inv_B = inv_S
    /\ inv_pc = "idle"

\* if x < dim_z and y < dim_z: temp = ...; s_B[xx_idx + z_key] = temp
NumbaInverseStep ==
    /\ inv_pc = "S"
    /\ inv_B' = [i \in TileCells |->
                   IF \E x, y \in 0..(inv_dim_z - 1) : i = x * inv_dim_z + y
                   THEN LET x == i \div inv_dim_z
                            y == i % inv_dim_z
                        IN  NumbaInverseEntry(inv_S, inv_dim_z, x, y)
                   ELSE inv_S[i]]
    /\ inv_pc' = "numba"
    /\ UNCHANGED <<inv_dim_z, inv_S>>

\* if (tx < DIM_Z && ty < DIM_Z): temp = inverse<T, DIM_Z>(xx_idx, tx, ty, s_B);
\* s_B[xx_idx + z_value] = temp, z_value = ty * DIM_Z + tx
CupyInverseStep ==
    /\ inv_pc = "S"
    /\ inv_B' = [i \in TileCells |->
                   IF \E tx, ty \in 0..(inv_dim_z - 1) : i = ty * inv_dim_z + tx
                   THEN LET ty == i \div inv_dim_z
                            tx == i % inv_dim_z
                        IN  inverse(inv_S, inv_dim_z, tx, ty)
                   ELSE inv_S[i]]
    /\ inv_pc' = "cupy"
    /\ UNCHANGED <<inv_dim_z, inv_S>>

----------------------------------------------------------------------------
(* Kernel selection and cache. *)

\* Python's None where a kernel is expected
NoKernel == [fn |-> "None"]

\* "if kernel:": a compiled kernel object is truthy, None is not
Truthy(kernel) == kernel.fn # "None"

\* class GPUKernel(Enum)
GPUKernel == {"PREDICT", "UPDATE"}

\* _SUPPORTED_TYPES = {cp.float32: [float32, "float"], cp.float64: [float64, "double"]}
SUPPORTED_TYPES ==
    [t \in {"float32", "float64"} |->
        IF t = "float32" THEN <<"float32", "float">> ELSE <<"float64", "double">>]

\* d[k]: the value, or the KeyError a dict raises for a missing key
DictGet(d, k) ==
    IF k \in DOMAIN d THEN [exc |-> "none", val |-> d[k]]
    ELSE [exc |-> "KeyError", val |-> NoKernel]

\* d[k] = v
DictSet(d, k, v) == [x \in (DOMAIN d) \cup {k} |-> IF x = k THEN v ELSE d[x]]

EmptyDict == [x \in {} |-> NoKernel]

\* try: numba_type, c_type = _SUPPORTED_TYPES[np_type]
\* except ValueError: raise Exception("No kernel found for datatype ...")
SupportedTypeLookup(np_type) ==
    LET r == DictGet(SUPPORTED_TYPES, np_type)
    IN  IF r.exc = "ValueError"
        THEN [exc |-> "Exception: No kernel found for datatype", val |-> NoKernel]
        ELSE r

\* the types, dimensions and launch bounds requested of the cache
NpTypes == {"float16", "float32", "float64"}
Dims == {<<2, 1>>, <<2, 2>>}
LaunchBounds == {<<256, 2>>}

\* module.get_function(...) of the specialisations
\* "_cupy_predict<c_type, dim_x, max_tpb, min_bpsm>" and
\* "_cupy_update<c_type, dim_x, dim_z, max_tpb, min_bpsm>"
CupyKernel(kind, c_type, dim_x, dim_z, lb) ==
    IF kind = "PREDICT"
    THEN [fn |-> "_cupy_predict", T |-> c_type, DIM_X |-> dim_x,
          DIM_Z |-> 0, MAX_TPB |-> lb[1], MIN_BPSM |-> lb[2]]
    ELSE [fn |-> "_cupy_update", T |-> c_type, DIM_X |-> dim_x,
          DIM_Z |-> dim_z, MAX_TPB |-> lb[1], MIN_BPSM |-> lb[2]]

\* cuda.jit(sig, fastmath=True)(_numba_predict / _numba_update): the kernel
\* takes dim_x and dim_z from the shapes of its arguments at run time
NumbaKernel(kind, numba_type) ==
    [fn |-> IF kind = "PREDICT" THEN "_numba_predict" ELSE "_numba_update",
     sig |-> numba_type]

CacheInit ==
    /\ numba_kernel_cache = EmptyDict
    /\ cupy_kernel_cache = EmptyDict
    /\ built = {}
    /\ call = [op |-> "none"]

\* _populate_kernel_cache(np_type, use_numba, dim_x, dim_z, max_tpb, min_bpsm)
populate_kernel_cache(np_type, use_numba, dim_x, dim_z, lb) ==
    LET t == SupportedTypeLookup(np_type)
        numba_type == t.val[1]
        c_type == t.val[2]
    IN  /\ call' = [op |-> "populate", np_type |-> np_type,
                    use_numba |-> use_numba, dims |-> <<dim_x, dim_z>>,
                    exc |-> t.exc]
        /\ IF t.exc # "none"
           THEN UNCHANGED <<numba_kernel_cache, cupy_kernel_cache, built>>
           ELSE /\ built' = built \cup {<<use_numba, np_type, <<dim_x, dim_z>>>>}
                /\ IF ~use_numba
                   THEN /\ cupy_kernel_cache' =
                             DictSet(DictSet(cupy_kernel_cache,
                                       <<numba_type, "PREDICT">>,
                                       CupyKernel("PREDICT", c_type, dim_x, dim_z, lb)),
                                     <<numba_type, "UPDATE">>,
                                     CupyKernel("UPDATE", c_type, dim_x, dim_z, lb))
                        /\ UNCHANGED numba_kernel_cache
                   ELSE /\ numba_kernel_cache' =
                             DictSet(DictSet(numba_kernel_cache,
                                       <<numba_type, "PREDICT">>,
                                       NumbaKernel("PREDICT", numba_type)),
                                     <<numba_type, "UPDATE">>,
                                     NumbaKernel("UPDATE", numba_type))
                        /\ UNCHANGED cupy_kernel_cache

\* _get_backend_kernel(dtype, grid, block, smem, stream, use_numba, k_type).
\* The request's dim_x is the block shape's first extent; dim_z is known to
\* the caller only.  Both are recorded with the call.
get_backend_kernel(dtype, dims, use_numba, k_type) ==
    LET cache == IF use_numba THEN numba_kernel_cache ELSE cupy_kernel_cache
        r == DictGet(cache, <<dtype, k_type>>)
        outcome ==
            IF r.exc # "none" THEN [exc |-> r.exc, kernel |-> NoKernel]
            ELSE IF Truthy(r.val)
                 THEN [exc |-> "none", kernel |-> r.val]
                 ELSE [exc |-> "ValueError: Kernel not found in cache",
                       kernel |-> NoKernel]
    IN  /\ call' = [op |-> "get", dtype |-> dtype, dims |-> dims,
                    use_numba |-> use_numba, k_type |-> k_type,
                    absent |-> (<<dtype, k_type>> \notin DOMAIN cache),
                    exc |-> outcome.exc, kernel |-> outcome.kernel]
        /\ UNCHANGED <<numba_kernel_cache, cupy_kernel_cache, built>>

Populate ==
    \E np_type \in NpTypes, use_numba \in BOOLEAN, d \in Dims, lb \in LaunchBounds :
        populate_kernel_cache(np_type, use_numba, d[1], d[2], lb)

GetKernel ==
    \E dtype \in NpTypes, d \in Dims, use_numba \in BOOLEAN, k_type \in GPUKernel :
        get_backend_kernel(dtype, d, use_numba, k_type)

CacheIdle == CacheInit

\* Two threads of the process call _populate_kernel_cache at the same time,
\* for one np_type and one strategy.  call.dims[r] is the <<dim_x, dim_z>> of
\* thread r's request and call.at[r] the statement it executes next.  The
\* module a call builds is local to it; each of its two dictionary stores is
\* one step, and the other thread may run between them.
Requests == {1, 2}
RaceDims == {<<2, 1>>, <<3, 2>>}

RaceInit ==
    /\ numba_kernel_cache = EmptyDict
    /\ cupy_kernel_cache = EmptyDict
    /\ built = {}
    /\ \E np_type \in NpTypes, use_numba \in BOOLEAN,
          d1 \in RaceDims, d2 \in RaceDims, lb \in LaunchBounds :
          call = [op |-> "race", np_type |-> np_type, use_numba |-> use_numba,
                  dims |-> <<d1, d2>>, lb |-> lb,
                  at |-> <<"build", "build">>, exc |-> <<"none", "none">>]

\* the kernel object thread r stores under (str(numba_type), kind)
RaceKernel(r, kind) ==
    LET t == SupportedTypeLookup(call.np_type)
    IN  IF call.use_numba
        THEN NumbaKernel(kind, t.val[1])
        ELSE CupyKernel(kind, t.val[2], call.dims[r][1], call.dims[r][2], call.lb)

\* cache[(str(numba_type), kind)] = thread r's kernel
RaceStore(r, kind) ==
    LET key == <<SupportedTypeLookup(call.np_type).val[1], kind>>
    IN  IF call.use_numba
        THEN /\ numba_kernel_cache' =
                    DictSet(numba_kernel_cache, key, RaceKernel(r, kind))
             /\ UNCHANGED cupy_kernel_cache
        ELSE /\ cupy_kernel_cache' =
                    DictSet(cupy_kernel_cache, key, RaceKernel(r, kind))
             /\ UNCHANGED numba_kernel_cache

\* the type lookup, and cp.RawModule(...) or _numba_kalman_signature(...)
RaceBuild(r) ==
    LET t == SupportedTypeLookup(call.np_type)
    IN  /\ call.op = "race" /\ call.at[r] = "build"
        /\ call' = [call EXCEPT
                       !.at[r] = IF t.exc = "none" THEN "store_predict" ELSE "done",
                       !.exc[r] = t.exc]
        /\ built' = IF t.exc = "none"
                    THEN built \cup {<<call.use_numba, call.np_type, call.dims[r]>>}
                    ELSE built
        /\ UNCHANGED <<numba_kernel_cache, cupy_kernel_cache>>

\* _cupy_kernel_cache[(str(numba_type), GPUKernel.PREDICT)] = ...
RaceStorePredict(r) ==
    /\ call.op = "race" /\ call.at[r] = "store_predict"
    /\ RaceStore(r, "PREDICT")
    /\ call' = [call EXCEPT !.at[r] = "store_update"]
    /\ UNCHANGED built

\* _cupy_kernel_cache[(str(numba_type), GPUKernel.UPDATE)] = ...
RaceStoreUpdate(r) ==
    /\ call.op = "race" /\ call.at[r] = "store_update"
    /\ RaceStore(r, "UPDATE")
    /\ call' = [call EXCEPT !.at[r] = "done"]
    /\ UNCHANGED built

----------------------------------------------------------------------------
(* The kernels at thread level.                                             *)
(*                                                                          *)
(* A thread is <<b, tz, row, col>>: block b of a grid of gridDim.z blocks,  *)
(* threadIdx.z = tz, and its coordinate in the dim_x x dim_x tile.  In      *)
(* _numba_* the row is x and the column y; in _cupy_* the row is ty and     *)
(* the column tx.  Each statement of a thread is one step; a statement that *)
(* reads cells other threads write in the same barrier interval is split    *)
(* into its reads (into the register temp) and its store.  Threads of all   *)
(* blocks interleave freely between barriers.                               *)
(*                                                                          *)
(* mem maps a run to a memory.  The kernels take no data-dependent branch,  *)
(* so several runs of one launch that differ in their data only can be      *)
(* stepped together under one schedule.                                     *)

dim_x == launch.dim_x
dim_z == launch.dim_z

Threads ==
    {<<b, tz, row, col>> : b \in 0..(launch.gridDim_z - 1),
                           tz \in 0..(launch.blockDim_z - 1),
                           row \in 0..(dim_x - 1), col \in 0..(dim_x - 1)}

Blk(t) == t[1]
Tz(t) == t[2]
Row(t) == t[3]
Col(t) == t[4]

\* x, y, z = cuda.grid(3): the z coordinate, blockIdx.z * blockDim.z + threadIdx.z
GridZ(t) == Blk(t) * launch.blockDim_z + Tz(t)

\* a stride that leaves out the grid: blockDim.z
strideZ_BlockOnly == launch.blockDim_z

\* _, _, strideZ = cuda.gridsize(3): blockDim.z * gridDim.z
strideZ == launch.blockDim_z * launch.gridDim_z

xx_block_size == dim_x * dim_x * launch.blockDim_z
xz_block_size == dim_x * dim_z * launch.blockDim_z
zz_block_size == dim_z * dim_z * launch.blockDim_z
xx_idx(t) == dim_x * dim_x * Tz(t)
xz_idx(t) == dim_x * dim_z * Tz(t)
zz_idx(t) == dim_z * dim_z * Tz(t)
\* a key that two threads of a tile share: x + y
x_key_RowPlusCol(t) == Row(t) + Col(t)

x_key(t) == Row(t) * dim_x + Col(t)
z_key(t) == Row(t) * dim_z + Col(t)

\* __shared__ T s_A[DIM_X * DIM_X * 16]: the instances a CuPy array has room for
SLOTS == 16

\* the shared arrays of a kernel, in the order they are cut from s_buffer
SharedArrays ==
    IF launch.kernel = "predict" THEN <<"s_A", "s_F">>
    ELSE <<"s_A", "s_B", "s_P", "s_H", "s_K", "s_R", "s_y">>

\* the cells of one instance in a shared array
TileSize(arr) ==
    IF arr \in {"s_A", "s_B", "s_P", "s_F"} THEN dim_x * dim_x
    ELSE IF arr \in {"s_H", "s_K"} THEN dim_x * dim_z
    ELSE IF arr = "s_R" THEN dim_z * dim_z
    ELSE dim_z

\* where a slice of s_buffer starts (Numba): s_A = s_buffer[:xx_block_size],
\* s_B = s_buffer[xx_block_size : 2 * xx_block_size], ...
RECURSIVE SliceStart(_)
SliceStart(k) ==
    IF k = 1 THEN 0
    ELSE SliceStart(k - 1) + TileSize(SharedArrays[k - 1]) * launch.blockDim_z

ArrayIndex(arr) == CHOOSE k \in 1..Len(SharedArrays) : SharedArrays[k] = arr

\* the shared-memory cell that arr[i] names.  A Numba slice is a view of the
\* one dynamic buffer and is not bounds-checked: an index past its end names a
\* cell of the slices that follow.  The CuPy arrays are separate objects.
Addr(backend, arr, i) ==
    IF backend = "numba"
    THEN <<"s_buffer", SliceStart(ArrayIndex(arr)) + i>>
    ELSE <<arr, i>>

\* the shared memory of one block: the dynamic buffer of the launch, sized as
\* the sum of the slices (Numba), or the statically sized arrays (CuPy)
SmemCellsOf(backend) ==
    IF backend = "numba"
    THEN {<<"s_buffer", k>> : k \in 0..(SliceStart(Len(SharedArrays) + 1) - 1)}
    ELSE {<<SharedArrays[k], i>> : k \in 1..Len(SharedArrays),
                                    i \in 0..(dim_x * dim_x * SLOTS - 1)}
            \cap UNION {{<<a, i>> : i \in 0..(TileSize(a) * SLOTS - 1)} :
                          a \in {SharedArrays[k] : k \in 1..Len(SharedArrays)}}

SmemCells == SmemCellsOf(launch.backend)

Rd(m, t, arr, i) == m.smem[Blk(t)][Addr(m.backend, arr, i)]
Wr(m, t, arr, i, v) == [m EXCEPT !.smem[Blk(t)][Addr(m.backend, arr, i)] = v]

\* a store by thread t to the global buffers the kernels write:
\* x_in[i, k, 0] = v and P[i, k \div dim_x, k % dim_x] = v
WrState(m, t, i, k, v) ==
    [m EXCEPT !.x_in[i][k] = v,
              !.stores = @ (+) SetToBag({<<"x_in", i, k, t>>})]
WrP(m, t, i, k, v) ==
    [m EXCEPT !.P[i][k] = v,
              !.stores = @ (+) SetToBag({<<"P", i, k, t>>})]
SetTemp(m, t, v) == [m EXCEPT !.temp[t] = v]

\* temp = 0; for j in range(n): temp += f[j]
Dot(f, n) == FSum(f, n)

\* ---- _numba_predict / _cupy_predict, one grid-stride iteration of thread t

\* s_F[xx_idx + x_key] = F[z_idx, x, y]
predict_stage(m, t) ==
    Wr(m, t, "s_F", xx_idx(t) + x_key(t), m.F[z_idx[t]][x_key(t)])

\* a state product that leaves out the factor s_F: temp += x_in[z_idx, j, y]
predict_state_read_WithoutF(m, t) ==
    SetTemp(m, t, Dot([j \in 0..(dim_x - 1) |-> m.x_in[z_idx[t]][j]], dim_x))

\* if y == 0: for j in range(dim_x): temp += s_F[xx_idx + x*dim_x + j] * x_in[z_idx, j, y]
predict_state_read(m, t) ==
    SetTemp(m, t,
        Dot([j \in 0..(dim_x - 1) |->
               FMul(Rd(m, t, "s_F", xx_idx(t) + (Row(t) * dim_x + j)),
                    m.x_in[z_idx[t]][j])], dim_x))

\* x_in[z_idx, x, y] = temp
predict_state_write(m, t) ==
    SetTemp(WrState(m, t, z_idx[t], Row(t), m.temp[t]), t, Zero)

\* s_A[xx_idx + x_key] = sum_j s_F[xx_idx + x*dim_x + j] * P[z_idx, j, y]
predict_FP(m, t) ==
    Wr(m, t, "s_A", xx_idx(t) + x_key(t),
       Dot([j \in 0..(dim_x - 1) |->
              FMul(Rd(m, t, "s_F", xx_idx(t) + (Row(t) * dim_x + j)),
                   m.P[z_idx[t]][j * dim_x + Col(t)])], dim_x))

\* P[z_idx, x, y] = alpha_sq * sum_j s_A[xx_idx + x*dim_x + j] * s_F[xx_idx + y*dim_x + j]
\*                  + local_Q
\* (alpha_sq and local_Q are loaded after the first barrier from buffers the
\* kernel never writes)
\* the covariance stored into Q instead of P
predict_FPFT_StoresQ(m, t) ==
    LET temp == Dot([j \in 0..(dim_x - 1) |->
                       FMul(Rd(m, t, "s_A", xx_idx(t) + (Row(t) * dim_x + j)),
                            Rd(m, t, "s_F", xx_idx(t) + (Col(t) * dim_x + j)))],
                    dim_x)
    IN  [m EXCEPT !.Q[z_idx[t]][x_key(t)] =
                      FAdd(FMul(m.alpha[z_idx[t]][0], temp),
                           m.Q[z_idx[t]][x_key(t)])]

predict_FPFT(m, t) ==
    LET temp == Dot([j \in 0..(dim_x - 1) |->
                       FMul(Rd(m, t, "s_A", xx_idx(t) + (Row(t) * dim_x + j)),
                            Rd(m, t, "s_F", xx_idx(t) + (Col(t) * dim_x + j)))],
                    dim_x)
    IN  WrP(m, t, z_idx[t], x_key(t),
            FAdd(FMul(m.alpha[z_idx[t]][0], temp), m.Q[z_idx[t]][x_key(t)]))

\* ---- _numba_update / _cupy_update, one grid-stride iteration of thread t

\* s_P[xx_idx + x_key] = P[z_idx, x, y]
\* if x < dim_z: s_H[xz_idx + x_key] = H[z_idx, x, y]
\* if x < dim_z and y < dim_z: s_R[zz_idx + z_key] = R[z_idx, x, y]
update_stage(m, t) ==
    LET m1 == Wr(m, t, "s_P", xx_idx(t) + x_key(t), m.P[z_idx[t]][x_key(t)])
        m2 == IF Row(t) < dim_z
              THEN Wr(m1, t, "s_H", xz_idx(t) + x_key(t), m.H[z_idx[t]][x_key(t)])
              ELSE m1
    IN  IF Row(t) < dim_z /\ Col(t) < dim_z
        THEN Wr(m2, t, "s_R", zz_idx(t) + z_key(t), m.R[z_idx[t]][z_key(t)])
        ELSE m2

\* if x < dim_z and y == 0:
\*     s_y[dim_z * tz + x] = z_in[z_idx, x, y] - sum_j s_H[xz_idx + x*dim_x + j] * x_in[z_idx, j, y]
\* if y < dim_z:
\*     s_A[xx_idx + z_key] = sum_j s_P[xx_idx + x*dim_x + j] * s_H[xz_idx + y*dim_x + j]
update_innovation_PHT(m, t) ==
    LET m1 == IF Row(t) < dim_z /\ Col(t) = 0
              THEN Wr(m, t, "s_y", dim_z * Tz(t) + Row(t),
                      FSub(m.z_in[z_idx[t]][Row(t)],
                           Dot([j \in 0..(dim_x - 1) |->
                                  FMul(Rd(m, t, "s_H", xz_idx(t) + (Row(t) * dim_x + j)),
                                       m.x_in[z_idx[t]][j])], dim_x)))
              ELSE m
    IN  IF Col(t) < dim_z
        THEN Wr(m1, t, "s_A", xx_idx(t) + z_key(t),
                Dot([j \in 0..(dim_x - 1) |->
                       FMul(Rd(m, t, "s_P", xx_idx(t) + (Row(t) * dim_x + j)),
                            Rd(m, t, "s_H", xz_idx(t) + (Col(t) * dim_x + j)))], dim_x))
        ELSE m1

\* if x < dim_z and y < dim_z:
\*     s_B[xx_idx + z_key] = sum_j s_H[xz_idx + x*dim_x + j] * s_A[xx_idx + j*dim_z + y]
\*                           + s_R[zz_idx + z_key]
update_S(m, t) ==
    Wr(m, t, "s_B", xx_idx(t) + z_key(t),
       FAdd(Dot([j \in 0..(dim_x - 1) |->
                   FMul(Rd(m, t, "s_H", xz_idx(t) + (Row(t) * dim_x + j)),
                        Rd(m, t, "s_A", xx_idx(t) + (j * dim_z + Col(t))))], dim_x),
            Rd(m, t, "s_R", zz_idx(t) + z_key(t))))

\* the scratch tile of thread t's instance, B[i] = s_B[xx_idx + i]
TileB(m, t) == [i \in 0..(dim_x * dim_x - 1) |-> Rd(m, t, "s_B", xx_idx(t) + i)]

\* if x < dim_z and y < dim_z: temp = <the inverse's entry>
\* Numba: the inline 2x2 formula; CuPy: inverse<T, DIM_Z>(xx_idx, tx, ty, s_B)
update_inverse_read(m, t) ==
    SetTemp(m, t,
        IF m.backend = "numba"
        THEN NumbaInverseEntry(TileB(m, t), dim_z, Row(t), Col(t))
        ELSE inverse(TileB(m, t), dim_z, Col(t), Row(t)))

\* s_B[xx_idx + z_key] = temp
update_inverse_write(m, t) ==
    SetTemp(Wr(m, t, "s_B", xx_idx(t) + z_key(t), m.temp[t]), t, Zero)

\* if y < 2: s_K[xz_idx + z_key] = sum_j s_A[xx_idx + x*dim_z + j] * s_B[xx_idx + y*dim_z + j]
update_gain(m, t) ==
    Wr(m, t, "s_K", xz_idx(t) + z_key(t),
       Dot([j \in 0..(dim_z - 1) |->
              FMul(Rd(m, t, "s_A", xx_idx(t) + (Row(t) * dim_z + j)),
                   Rd(m, t, "s_B", xx_idx(t) + (Col(t) * dim_z + j)))], dim_z))

\* if y == 0: x_in[z_idx, x, y] += sum_j s_K[xz_idx + x*dim_z + j] * s_y[dim_z*tz + j]
\* s_A[xx_idx + x_key] = (1.0 if x == y else 0.0)
\*                       - sum_j s_K[xz_idx + x*dim_z + j] * s_H[xz_idx + j*dim_x + y]
update_state_IKH(m, t) ==
    LET m1 == IF Col(t) = 0
              THEN WrState(m, t, z_idx[t], Row(t),
                       FAdd(m.x_in[z_idx[t]][Row(t)],
                            Dot([j \in 0..(dim_z - 1) |->
                                   FMul(Rd(m, t, "s_K", xz_idx(t) + (Row(t) * dim_z + j)),
                                        Rd(m, t, "s_y", dim_z * Tz(t) + j))], dim_z)))
              ELSE m
    IN  Wr(m1, t, "s_A", xx_idx(t) + x_key(t),
           FSub(IF Row(t) = Col(t) THEN One ELSE Zero,
                Dot([j \in 0..(dim_z - 1) |->
                       FMul(Rd(m, t, "s_K", xz_idx(t) + (Row(t) * dim_z + j)),
                            Rd(m, t, "s_H", xz_idx(t) + (j * dim_x + Col(t))))], dim_z)))

\* s_B[xx_idx + x_key] = sum_j s_A[xx_idx + x*dim_x + j] * s_P[xx_idx + j*dim_x + y]
update_IKHP(m, t) ==
    Wr(m, t, "s_B", xx_idx(t) + x_key(t),
       Dot([j \in 0..(dim_x - 1) |->
              FMul(Rd(m, t, "s_A", xx_idx(t) + (Row(t) * dim_x + j)),
                   Rd(m, t, "s_P", xx_idx(t) + (j * dim_x + Col(t))))], dim_x))

\* temp = sum_j s_B[xx_idx + x*dim_x + j] * s_A[xx_idx + y*dim_x + j]
\* Numba keeps temp in its register; CuPy stores it: s_P[xx_idx + ty*DIM_X + tx] = temp
update_joseph(m, t) ==
    LET temp == Dot([j \in 0..(dim_x - 1) |->
                       FMul(Rd(m, t, "s_B", xx_idx(t) + (Row(t) * dim_x + j)),
                            Rd(m, t, "s_A", xx_idx(t) + (Col(t) * dim_x + j)))], dim_x)
    IN  IF m.backend = "numba"
        THEN SetTemp(m, t, temp)
        ELSE Wr(m, t, "s_P", xx_idx(t) + x_key(t), temp)

\* temp2 = 0; if y < dim_z: temp2 = sum_j s_K[xz_idx + x*dim_z + j] * s_R[zz_idx + j*dim_z + y]
\* s_A[xx_idx + z_key] = temp2
update_KR(m, t) ==
    Wr(m, t, "s_A", xx_idx(t) + z_key(t),
       IF Col(t) < dim_z
       THEN Dot([j \in 0..(dim_z - 1) |->
                   FMul(Rd(m, t, "s_K", xz_idx(t) + (Row(t) * dim_z + j)),
                        Rd(m, t, "s_R", zz_idx(t) + (j * dim_z + Col(t))))], dim_z)
       ELSE Zero)

\* temp2 = sum_j s_A[xx_idx + x*dim_z + j] * s_K[xz_idx + y*dim_z + j]
\* P[z_idx, x, y] = temp + temp2       (CuPy: s_P[xx_idx + ty*DIM_X + tx] + temp)
update_KRKT(m, t) ==
    LET temp2 == Dot([j \in 0..(dim_z - 1) |->
                        FMul(Rd(m, t, "s_A", xx_idx(t) + (Row(t) * dim_z + j)),
                             Rd(m, t, "s_K", xz_idx(t) + (Col(t) * dim_z + j)))], dim_z)
        temp == IF m.backend = "numba" THEN m.temp[t]
                ELSE Rd(m, t, "s_P", xx_idx(t) + x_key(t))
    IN  SetTemp(WrP(m, t, z_idx[t], x_key(t), FAdd(temp, temp2)), t, Zero)

\* ---- thread steps

\* a thread executes the statement at its pc in every run and moves on
Step(t, from, to, f(_, _)) ==
    /\ pc[t] = from
    /\ mem' = [r \in DOMAIN mem |-> f(mem[r], t)]
    /\ pc' = [pc EXCEPT ![t] = to]
    /\ UNCHANGED <<launch, z_idx>>

\* the last statement of the loop body, then the loop header:
\* for z_idx in range(z, x_in.shape[0], strideZ)
StepAndLoop(t, from, first, f(_, _)) ==
    /\ pc[t] = from
    /\ mem' = [r \in DOMAIN mem |-> f(mem[r], t)]
    /\ z_idx' = [z_idx EXCEPT ![t] = z_idx[t] + strideZ]
    /\ pc' = [pc EXCEPT ![t] = IF z_idx[t] + strideZ < launch.N
                                THEN first ELSE "done"]
    /\ UNCHANGED launch

PredictStageF(t) == Step(t, "p_stage", "p_sync1", predict_stage)
PredictStateRead(t) == Step(t, "p_state_rd", "p_state_wr", predict_state_read)
PredictStateWrite(t) == Step(t, "p_state_wr", "p_FP", predict_state_write)
PredictFP(t) == Step(t, "p_FP", "p_sync2", predict_FP)
PredictFPFT(t) == StepAndLoop(t, "p_FPFT", "p_stage", predict_FPFT)

UpdateStage(t) == Step(t, "u_stage", "u_sync1", update_stage)
UpdateInnovationPHT(t) == Step(t, "u_innov", "u_sync2", update_innovation_PHT)
UpdateS(t) == Step(t, "u_S", "u_sync3", update_S)
UpdateInverseRead(t) == Step(t, "u_inv_rd", "u_inv_wr", update_inverse_read)
UpdateInverseWrite(t) == Step(t, "u_inv_wr", "u_sync4", update_inverse_write)
UpdateGain(t) == Step(t, "u_gain", "u_sync5", update_gain)
UpdateStateIKH(t) == Step(t, "u_xIKH", "u_sync6", update_state_IKH)
UpdateIKHP(t) == Step(t, "u_IKHP", "u_sync7", update_IKHP)
UpdateJoseph(t) == Step(t, "u_joseph", "u_KR", update_joseph)
UpdateKR(t) == Step(t, "u_KR", "u_sync8", update_KR)
UpdateKRKT(t) == StepAndLoop(t, "u_KRKT", "u_stage", update_KRKT)

\* ---- cuda.syncthreads() / __syncthreads()

SyncLabels == {"p_sync1", "p_sync2", "u_sync1", "u_sync2", "u_sync3", "u_sync4",
               "u_sync5", "u_sync6", "u_sync7", "u_sync8"}

\* the statement a thread released from a barrier executes next
AfterSync(label, t) ==
    CASE label = "p_sync1" -> IF Col(t) = 0 THEN "p_state_rd" ELSE "p_FP"
      [] label = "p_sync2" -> "p_FPFT"
      [] label = "u_sync1" ->
            IF Col(t) < dim_z \/ (Row(t) < dim_z /\ Col(t) = 0)
            THEN "u_innov" ELSE "u_sync2"
      [] label = "u_sync2" ->
            IF Row(t) < dim_z /\ Col(t) < dim_z THEN "u_S" ELSE "u_sync3"
      [] label = "u_sync3" ->
            IF Row(t) < dim_z /\ Col(t) < dim_z THEN "u_inv_rd" ELSE "u_sync4"
      [] label = "u_sync4" -> IF Col(t) < 2 THEN "u_gain" ELSE "u_sync5"
      [] label = "u_sync5" -> "u_xIKH"
      [] label = "u_sync6" -> "u_IKHP"
      [] label = "u_sync7" -> "u_joseph"
      [] label = "u_sync8" -> "u_KRKT"

\* The barrier of block b opens when every thread of the block that has not
\* returned from the kernel waits at a barrier.
Barrier(b) ==
    LET ts == {t \in Threads : Blk(t) = b}
        waiting == {t \in ts : pc[t] \in SyncLabels}
    IN  /\ waiting # {}
        /\ \A t \in ts : pc[t] \in SyncLabels \cup {"done"}
        /\ pc' = [t \in Threads |->
                    IF t \in waiting THEN AfterSync(pc[t], t) ELSE pc[t]]
        /\ UNCHANGED <<launch, z_idx, mem>>

KernelDone == \A t \in Threads : pc[t] = "done"

\* ---- launches and inputs

MaxN == 2

\* a row-major matrix of integers as a buffer of values
Mat(seq) == [i \in 0..(Len(seq) - 1) |-> Int2F(seq[i + 1])]

\* one filter instance's inputs to predict: state, P, F, Q, alpha^2
PredictInstances ==
    { [x |-> Mat(<<1, 1>>), P |-> Mat(<<1, 0, 0, 1>>), F |-> Mat(<<1, 1, 0, 1>>),
       Q |-> Mat(<<0, 0, 0, 0>>), alpha |-> Mat(<<1>>)],
      [x |-> Mat(<<1, 2>>), P |-> Mat(<<2, 1, 1, 2>>), F |-> Mat(<<1, 1, 1, 0>>),
       Q |-> Mat(<<1, 0, 0, 1>>), alpha |-> Mat(<<2>>)] }

\* what uninitialised shared memory may hold
Garbage == {Zero, One}

\* a launch of kernel k by backend be over n instances with block shape
\* (dims[1], dims[1], g[1]) and a grid of g[2] blocks
Launch(k, be, dims, n, g) ==
    [kernel |-> k, backend |-> be, dim_x |-> dims[1], dim_z |-> dims[2],
     N |-> n, blockDim_z |-> g[1], gridDim_z |-> g[2]]

\* one tile looping over all instances; two tiles in one block; two blocks
PredictLaunches ==
    {Launch("predict", be, <<2, 0>>, n, <<1, 1>>) :
        be \in {"numba", "cupy"}, n \in 1..MaxN}
    \cup {Launch("predict", "numba", <<2, 0>>, n, g) :
        n \in 2..MaxN, g \in {<<2, 1>>, <<1, 2>>}}

\* the instances of a batch: neighbours in the batch differ
Batches(n, instances) ==
    {inst \in [0..(n - 1) -> instances] :
        \A i \in 1..(n - 1) : inst[i] # inst[i - 1]}

Empty == [i \in {} |-> Zero]

\* the memory of a predict launch over the instances inst[0..N-1], its
\* shared memory holding g (no statement of predict reads a shared cell
\* before writing it; a NaN there would show in the result)
PredictMem(inst, g) ==
    [alpha |-> [i \in DOMAIN inst |-> inst[i].alpha],
     x_in |-> [i \in DOMAIN inst |-> inst[i].x],
     F |-> [i \in DOMAIN inst |-> inst[i].F],
     P |-> [i \in DOMAIN inst |-> inst[i].P],
     Q |-> [i \in DOMAIN inst |-> inst[i].Q],
     z_in |-> [i \in DOMAIN inst |-> Empty],
     H |-> [i \in DOMAIN inst |-> Empty],
     R |-> [i \in DOMAIN inst |-> Empty],
     in |-> inst,
     smem |-> [b \in 0..(launch.gridDim_z - 1) |-> [c \in SmemCells |-> g]],
     temp |-> [t \in Threads |-> Zero],
     backend |-> launch.backend,
     stores |-> EmptyBag]

\* one filter instance's inputs to update, by <<dim_x, dim_z>>: state, P,
\* measurement z, H, R
UpdateInstances(dims) ==
    IF dims = <<2, 1>>
    THEN { [x |-> Mat(<<1, 1>>), P |-> Mat(<<2, 1, 1, 2>>), z |-> Mat(<<2>>),
            H |-> Mat(<<1, 0>>), R |-> Mat(<<1>>)],
           [x |-> Mat(<<0, 1>>), P |-> Mat(<<1, 0, 0, 2>>), z |-> Mat(<<3>>),
            H |-> Mat(<<1, 1>>), R |-> Mat(<<1>>)] }
    ELSE { [x |-> Mat(<<1, 1>>), P |-> Mat(<<2, 1, 1, 2>>), z |-> Mat(<<2, 0>>),
            H |-> Mat(<<1, 0, 0, 1>>), R |-> Mat(<<1, 0, 0, 1>>)],
           [x |-> Mat(<<0, 1>>), P |-> Mat(<<1, 1, 0, 1>>), z |-> Mat(<<1, 3>>),
            H |-> Mat(<<1, 0, 0, 1>>), R |-> Mat(<<1, 0, 0, 1>>)] }

\* one tile: dim_z = 1 < dim_x, looping over the instances, and dim_z = dim_x
UpdateLaunches ==
    {Launch("update", "numba", <<2, 1>>, n, <<1, 1>>) : n \in 1..MaxN}
    \cup {Launch("update", "cupy", <<2, 1>>, 1, <<1, 1>>)}
    \cup {Launch("update", be, <<2, 2>>, 1, <<1, 1>>) : be \in {"numba", "cupy"}}

\* two instances that one tile processes in turn, dim_z = 1 < dim_x
UpdatePairLaunches ==
    {Launch("update", be, <<2, 1>>, 2, <<1, 1>>) : be \in {"numba", "cupy"}}

\* the memory of an update launch over the instances inst[0..N-1], its
\* shared memory holding g
UpdateMem(inst, g) ==
    [alpha |-> [i \in DOMAIN inst |-> Empty],
     x_in |-> [i \in DOMAIN inst |-> inst[i].x],
     F |-> [i \in DOMAIN inst |-> Empty],
     P |-> [i \in DOMAIN inst |-> inst[i].P],
     Q |-> [i \in DOMAIN inst |-> Empty],
     z_in |-> [i \in DOMAIN inst |-> inst[i].z],
     H |-> [i \in DOMAIN inst |-> inst[i].H],
     R |-> [i \in DOMAIN inst |-> inst[i].R],
     in |-> inst,
     smem |-> [b \in 0..(launch.gridDim_z - 1) |-> [c \in SmemCells |-> g]],
     temp |-> [t \in Threads |-> Zero],
     backend |-> launch.backend,
     stores |-> EmptyBag]

ThreadsInit(first) ==
    /\ pc = [t \in Threads |-> IF GridZ(t) < launch.N THEN first ELSE "done"]
    /\ z_idx = [t \in Threads |-> GridZ(t)]

PredictInit ==
    /\ launch \in PredictLaunches
    /\ ThreadsInit("p_stage")
    /\ \E inst \in Batches(launch.N, PredictInstances) :
          mem = [r \in {1} |-> PredictMem(inst, NaN)]

UpdateInit ==
    /\ launch \in UpdateLaunches
    /\ ThreadsInit("u_stage")
    /\ \E inst \in Batches(launch.N, UpdateInstances(<<dim_x, dim_z>>)),
          g \in Garbage :
          mem = [r \in {1} |-> UpdateMem(inst, g)]

\* two launches of the same kernel under one schedule: they agree on the
\* second instance's buffers and on what shared memory held before, and
\* differ in the first instance's buffers
UpdatePairInit ==
    /\ launch \in UpdatePairLaunches
    /\ ThreadsInit("u_stage")
    /\ \E a \in UpdateInstances(<<dim_x, dim_z>>),
          b \in UpdateInstances(<<dim_x, dim_z>>),
          o \in UpdateInstances(<<dim_x, dim_z>>),
          g \in Garbage :
          /\ a # b
          /\ o = a
          /\ a.P = Mat(<<2, 1, 1, 2>>)
          /\ mem = [r \in {1, 2} |->
                      UpdateMem([i \in 0..1 |-> IF i = 1 THEN o
                                                ELSE IF r = 1 THEN a ELSE b], g)]

\* the memory m as the other backend's kernel finds it: the same global
\* buffers, its own layout of shared memory holding g
OnBackend(m, backend, g) ==
    [m EXCEPT !.backend = backend,
              !.smem = [b \in DOMAIN m.smem |-> [c \in SmemCellsOf(backend) |-> g]]]

\* one instance through predict and through update with dim_z = dim_x = 2
StrategyLaunches ==
    {Launch("predict", "numba", <<2, 0>>, 1, <<1, 1>>),
     Launch("update", "numba", <<2, 2>>, 1, <<1, 1>>)}

\* the Numba kernel (run 1) and the CuPy kernel (run 2) on the same inputs,
\* their threads scheduled alike
StrategyInit ==
    /\ launch \in StrategyLaunches
    /\ ThreadsInit(IF launch.kernel = "predict" THEN "p_stage" ELSE "u_stage")
    /\ \E g \in {Zero} :
          \E m \in IF launch.kernel = "predict"
                   THEN {PredictMem(inst, g) : inst \in Batches(1, PredictInstances)}
                   ELSE {UpdateMem(inst, g) :
                            inst \in Batches(1, UpdateInstances(<<dim_x, dim_z>>))} :
              mem = [r \in {1, 2} |-> IF r = 1 THEN m ELSE OnBackend(m, "cupy", g)]

\* launches of both kernels: the predict launches above and one with fewer
\* instances than tiles; update with one tile, looping over the instances
\* (CuPy) and with dim_z = 1 and dim_z = 2 (both backends)
KernelsLaunches ==
    PredictLaunches
    \cup {Launch("predict", "numba", <<2, 0>>, 1, <<2, 1>>)}
    \cup {Launch("update", "cupy", <<2, 1>>, n, <<1, 1>>) : n \in 1..MaxN}
    \cup {Launch("update", "numba", <<2, 1>>, 1, <<1, 1>>)}
    \cup {Launch("update", be, <<2, 2>>, 1, <<1, 1>>) : be \in {"numba", "cupy"}}

\* one batch for each launch
KernelsInit ==
    /\ launch \in KernelsLaunches
    /\ ThreadsInit(IF launch.kernel = "predict" THEN "p_stage" ELSE "u_stage")
    /\ \E m \in IF launch.kernel = "predict"
                THEN {PredictMem(inst, NaN) :
                         inst \in Batches(launch.N, PredictInstances)}
                ELSE {UpdateMem(inst, One) :
                         inst \in Batches(launch.N, UpdateInstances(<<dim_x, dim_z>>))} :
          /\ m.in[0].x = Mat(<<1, 1>>)
          /\ mem = [r \in {1} |-> m]

\* steady-state inputs to predict: F = I, Q = 0, alpha^2 = 1; the third has an
\* infinite state component
SteadyInstances ==
    { [x |-> x, P |-> Mat(P), F |-> Mat(<<1, 0, 0, 1>>),
       Q |-> Mat(<<0, 0, 0, 0>>), alpha |-> Mat(<<1>>)] :
        <<x, P>> \in { <<Mat(<<1, 2>>), <<2, 1, 1, 2>>>>,
                       <<Mat(<<0, 1>>), <<1, 2, 0, 1>>>>,
                       <<[k \in 0..1 |-> IF k = 0 THEN Inf(1) ELSE One], <<1, 0, 0, 1>>>> } }

\* one tile looping over all instances, by both backends; two tiles in one
\* block and two blocks with one instance each
SteadyLaunches ==
    {Launch("predict", be, <<2, 0>>, n, <<1, 1>>) :
        be \in {"numba", "cupy"}, n \in 1..MaxN}
    \cup {Launch("predict", "numba", <<2, 0>>, 2, g) : g \in {<<2, 1>>, <<1, 2>>}}

SteadyInit ==
    /\ launch \in SteadyLaunches
    /\ ThreadsInit("p_stage")
    /\ \E inst \in Batches(launch.N, SteadyInstances) :
          mem = [r \in {1} |-> PredictMem(inst, NaN)]

\* inputs to update with dim_x = dim_z = 2 around a singular S = H*P*H^T + R:
\* R = 0 with S invertible, R = 0 with H of rank 1, R = 0 with P = 0, and a
\* singular R # 0 with P = 0
SingularInstances ==
    { [x |-> Mat(<<1, 1>>), P |-> Mat(P), z |-> Mat(<<2, 0>>), H |-> Mat(H), R |-> Mat(R)] :
        <<P, H, R>> \in { << <<2, 1, 1, 2>>, <<1, 0, 0, 1>>, <<0, 0, 0, 0>> >>,
                          << <<2, 1, 1, 2>>, <<1, 0, 1, 0>>, <<0, 0, 0, 0>> >>,
                          << <<0, 0, 0, 0>>, <<1, 0, 0, 1>>, <<0, 0, 0, 0>> >>,
                          << <<0, 0, 0, 0>>, <<1, 0, 0, 1>>, <<1, 1, 1, 1>> >> } }

SingularLaunches ==
    {Launch("update", be, <<2, 2>>, 1, <<1, 1>>) : be \in {"numba", "cupy"}}

SingularInit ==
    /\ launch \in SingularLaunches
    /\ ThreadsInit("u_stage")
    /\ \E inst \in Batches(launch.N, SingularInstances), g \in Garbage :
          mem = [r \in {1} |-> UpdateMem(inst, g)]

KernIdle ==
    /\ launch = [kernel |-> "none"]
    /\ pc = Empty
    /\ z_idx = Empty
    /\ mem = Empty

----------------------------------------------------------------------------
(* Specifications. *)

InverseNext ==
    \/ NumbaInverseStep /\ UNCHANGED <<cache_vars, kern_vars>>
    \/ CupyInverseStep /\ UNCHANGED <<cache_vars, kern_vars>>

InverseInit == InvInit /\ CacheIdle /\ KernIdle

SpecInverse == InverseInit /\ [][InverseNext]_vars

CacheNext ==
    \/ Populate /\ UNCHANGED <<inv_vars, kern_vars>>
    \/ GetKernel /\ UNCHANGED <<inv_vars, kern_vars>>

CacheOnlyInit == CacheInit /\ InvIdle /\ KernIdle

SpecCache == CacheOnlyInit /\ [][CacheNext]_vars

Idle == UNCHANGED <<inv_vars, cache_vars>>

PredictNext ==
    \/ \E t \in Threads : PredictStageF(t) /\ Idle
    \/ \E t \in Threads : PredictStateRead(t) /\ Idle
    \/ \E t \in Threads : PredictStateWrite(t) /\ Idle
    \/ \E t \in Threads : PredictFP(t) /\ Idle
    \/ \E t \in Threads : PredictFPFT(t) /\ Idle
    \/ \E b \in 0..(launch.gridDim_z - 1) : Barrier(b) /\ Idle

PredictLaunchInit == PredictInit /\ InvIdle /\ CacheIdle

SpecPredict == PredictLaunchInit /\ [][PredictNext]_vars

UpdateNext ==
    \/ \E t \in Threads : UpdateStage(t) /\ Idle
    \/ \E t \in Threads : UpdateInnovationPHT(t) /\ Idle
    \/ \E t \in Threads : UpdateS(t) /\ Idle
    \/ \E t \in Threads : UpdateInverseRead(t) /\ Idle
    \/ \E t \in Threads : UpdateInverseWrite(t) /\ Idle
    \/ \E t \in Threads : UpdateGain(t) /\ Idle
    \/ \E t \in Threads : UpdateStateIKH(t) /\ Idle
    \/ \E t \in Threads : UpdateIKHP(t) /\ Idle
    \/ \E t \in Threads : UpdateJoseph(t) /\ Idle
    \/ \E t \in Threads : UpdateKR(t) /\ Idle
    \/ \E t \in Threads : UpdateKRKT(t) /\ Idle
    \/ \E b \in 0..(launch.gridDim_z - 1) : Barrier(b) /\ Idle

UpdateLaunchInit == UpdateInit /\ InvIdle /\ CacheIdle

SpecUpdate == UpdateLaunchInit /\ [][UpdateNext]_vars

UpdatePairLaunchInit == UpdatePairInit /\ InvIdle /\ CacheIdle

SpecUpdatePair == UpdatePairLaunchInit /\ [][UpdateNext]_vars

StrategyLaunchInit == StrategyInit /\ InvIdle /\ CacheIdle

\* a step of a launch of either kernel
KernelsNext ==
    \/ \E t \in Threads : PredictStageF(t) /\ Idle
    \/ \E t \in Threads : PredictStateRead(t) /\ Idle
    \/ \E t \in Threads : PredictStateWrite(t) /\ Idle
    \/ \E t \in Threads : PredictFP(t) /\ Idle
    \/ \E t \in Threads : PredictFPFT(t) /\ Idle
    \/ \E t \in Threads : UpdateStage(t) /\ Idle
    \/ \E t \in Threads : UpdateInnovationPHT(t) /\ Idle
    \/ \E t \in Threads : UpdateS(t) /\ Idle
    \/ \E t \in Threads : UpdateInverseRead(t) /\ Idle
    \/ \E t \in Threads : UpdateInverseWrite(t) /\ Idle
    \/ \E t \in Threads : UpdateGain(t) /\ Idle
    \/ \E t \in Threads : UpdateStateIKH(t) /\ Idle
    \/ \E t \in Threads : UpdateIKHP(t) /\ Idle
    \/ \E t \in Threads : UpdateJoseph(t) /\ Idle
    \/ \E t \in Threads : UpdateKR(t) /\ Idle
    \/ \E t \in Threads : UpdateKRKT(t) /\ Idle
    \/ \E b \in 0..(launch.gridDim_z - 1) : Barrier(b) /\ Idle

SpecStrategy == StrategyLaunchInit /\ [][KernelsNext]_vars

KernelsLaunchInit == KernelsInit /\ InvIdle /\ CacheIdle

SpecKernels == KernelsLaunchInit /\ [][KernelsNext]_vars

SteadyLaunchInit == SteadyInit /\ InvIdle /\ CacheIdle

SpecSteady == SteadyLaunchInit /\ [][PredictNext]_vars

RaceNext ==
    \/ \E r \in Requests : RaceBuild(r) /\ UNCHANGED <<inv_vars, kern_vars>>
    \/ \E r \in Requests : RaceStorePredict(r) /\ UNCHANGED <<inv_vars, kern_vars>>
    \/ \E r \in Requests : RaceStoreUpdate(r) /\ UNCHANGED <<inv_vars, kern_vars>>

RaceOnlyInit == RaceInit /\ InvIdle /\ KernIdle

SpecCacheRace == RaceOnlyInit /\ [][RaceNext]_vars

SingularLaunchInit == SingularInit /\ InvIdle /\ CacheIdle

SpecSingular == SingularLaunchInit /\ [][UpdateNext]_vars

\* (end of the specifications)

----------------------------------------------------------------------------
(* Reference linear algebra the claims are stated with: n x n matrices      *)
(* stored row-major with row stride n.                                      *)

\* determinant by the Leibniz formula, n in 1..3
Det(M, n) ==
    IF n = 1 THEN M[0]
    ELSE IF n = 2 THEN FSub(FMul(M[0], M[3]), FMul(M[1], M[2]))
    ELSE FAdd(FSub(FMul(M[0], FSub(FMul(M[4], M[8]), FMul(M[5], M[7]))),
                   FMul(M[1], FSub(FMul(M[3], M[8]), FMul(M[5], M[6])))),
              FMul(M[2], FSub(FMul(M[3], M[7]), FMul(M[4], M[6]))))

\* M * Minv = I
IsInverse(M, Minv, n) ==
    \A r, c \in 0..(n - 1) :
        FSum([j \in 0..(n - 1) |-> FMul(M[r * n + j], Minv[j * n + c])], n)
            = IF r = c THEN One ELSE Zero

Inverted == inv_pc \in {"numba", "cupy"}

\* C4: with dim_z = 1 the inverse step replaces the 1x1 innovation
\* covariance s (s # 0) by its reciprocal 1/s, which the gain phase reads
C4_InverseDim1IsReciprocal ==
    (Inverted /\ inv_dim_z = 1 /\ inv_S[0] # Zero)
        => inv_B[0] = FDiv(One, inv_S[0])

\* C5: with dim_z = 3 the CuPy inverse routine stores, for every invertible
\* 3x3 matrix M, a matrix Minv with M * Minv = I
C5_Inverse3x3IsInverse ==
    (inv_pc = "cupy" /\ inv_dim_z = 3 /\ Det(inv_S, 3) # Zero)
        => IsInverse(inv_S, inv_B, 3)

\* C6: with dim_z = 2 both the Numba kernel and the CuPy inverse routine
\* store, for every invertible 2x2 matrix M (symmetric or not), the inverse
\* of M
C6_Inverse2x2IsInverse ==
    (Inverted /\ inv_dim_z = 2 /\ Det(inv_S, 2) # Zero)
        => IsInverse(inv_S, inv_B, 2)

\* whether kernel k is the specialisation a request (dtype, dims, strategy,
\* kind) asks for
KernelMatches(k, dtype, dims, use_numba, k_type) ==
    IF use_numba
    THEN k = NumbaKernel(k_type, SUPPORTED_TYPES[dtype][1])
    ELSE k = CupyKernel(k_type, SUPPORTED_TYPES[dtype][2], dims[1], dims[2],
                        <<k.MAX_TPB, k.MIN_BPSM>>)

\* C8: the kernel a lookup returns for a request (precision, dim_x, dim_z)
\* that has been built is a kernel built for exactly that precision, dim_x
\* and dim_z, whatever was built later
C8_LookupReturnsRequestedSpecialisation ==
    (/\ call.op = "get"
     /\ call.exc = "none"
     /\ <<call.use_numba, call.dtype, call.dims>> \in built)
        => KernelMatches(call.kernel, call.dtype, call.dims, call.use_numba,
                         call.k_type)

\* the failure a build request reports for an unsupported precision
UnsupportedTypeFailure == SupportedTypeLookup("float16").exc

\* C9: a lookup of a (precision, kind) absent from the selected cache fails
\* with the cache-miss ValueError, returns no kernel, and that failure differs
\* in kind from the unsupported-precision failure
C9_CacheMissIsValueError ==
    (call.op = "get" /\ call.absent)
        => /\ call.exc = "ValueError: Kernel not found in cache"
           /\ call.kernel = NoKernel
           /\ call.exc # UnsupportedTypeFailure

\* C10: a build request with an unsupported precision fails with the
\* exception "No kernel found for datatype", and leaves both caches as they
\* were
C10_UnsupportedPrecisionRejected ==
    [][(call'.op = "populate" /\ call'.np_type \notin DOMAIN SUPPORTED_TYPES)
         => /\ call'.exc = "Exception: No kernel found for datatype"
            /\ numba_kernel_cache' = numba_kernel_cache
            /\ cupy_kernel_cache' = cupy_kernel_cache]_vars

----------------------------------------------------------------------------
(* Reference matrix algebra for the kernels' claims: an n x m matrix is a   *)
(* row-major buffer with row stride m.                                      *)

\* the n x m product of A (n x k) and B (k x m)
MatMul(A, B, n, k, m) ==
    [i \in 0..(n * m - 1) |->
        FSum([j \in 0..(k - 1) |-> FMul(A[(i \div m) * k + j], B[j * m + (i % m)])], k)]

\* the m x n transpose of A (n x m)
Transpose(A, n, m) == [i \in 0..(n * m - 1) |-> A[(i % n) * m + (i \div n)]]

MatAdd(A, B) == [i \in DOMAIN A |-> FAdd(A[i], B[i])]
MatSub(A, B) == [i \in DOMAIN A |-> FSub(A[i], B[i])]
Scale(a, A) == [i \in DOMAIN A |-> FMul(a, A[i])]
Identity(n) == [i \in 0..(n * n - 1) |-> IF i \div n = i % n THEN One ELSE Zero]

Instances == 0..(launch.N - 1)

\* the classic predict equations on instance i's inputs
RefPredictState(in) == MatMul(in.F, in.x, dim_x, dim_x, 1)
RefPredictP(in) ==
    MatAdd(Scale(in.alpha[0],
                 MatMul(MatMul(in.F, in.P, dim_x, dim_x, dim_x),
                        Transpose(in.F, dim_x, dim_x), dim_x, dim_x, dim_x)),
           in.Q)

\* C1: after predict, under every interleaving, state[i][row] =
\* sum_j F[i][row,j] * state_old[i][j] for every instance i and row
C1_PredictStatePropagation ==
    (launch.kernel = "predict" /\ KernelDone)
        => \A i \in Instances : mem[1].x_in[i] = RefPredictState(mem[1].in[i])

\* C2: after predict, for every N and grid size (also when a tile loops over
\* several instances), P[i] = alpha2[i] * F[i] * P_old[i] * F[i]^T + Q[i]
C2_PredictCovariancePropagation ==
    (launch.kernel = "predict" /\ KernelDone)
        => \A i \in Instances : mem[1].P[i] = RefPredictP(mem[1].in[i])

\* the tile of shared memory that instance i is staged in
TileOf(i) ==
    CHOOSE t \in Threads : GridZ(t) = i % strideZ /\ Row(t) = 0 /\ Col(t) = 0

\* the gain left in instance i's tile of s_K by the gain phase
GainOf(i) ==
    [k \in 0..(dim_x * dim_z - 1) |->
        Rd(mem[1], TileOf(i), "s_K", xz_idx(TileOf(i)) + k)]

\* the Joseph form on the gain K and instance i's staged inputs
RefJoseph(K, in) ==
    LET I_KH == MatSub(Identity(dim_x), MatMul(K, in.H, dim_x, dim_z, dim_x))
    IN  MatAdd(MatMul(MatMul(I_KH, in.P, dim_x, dim_x, dim_x),
                      Transpose(I_KH, dim_x, dim_x), dim_x, dim_x, dim_x),
               MatMul(MatMul(K, in.R, dim_x, dim_z, dim_z),
                      Transpose(K, dim_x, dim_z), dim_x, dim_z, dim_x))

\* C3: when update has finished, the P of every instance (of those whose
\* tile was not staged again afterwards, so that its gain is still there) is
\* (I - K*H) * P_old * transpose(I - K*H) + K * R * transpose(K) for the gain K
\* of the gain phase, for dim_z = dim_x and for dim_z < dim_x
C3_UpdateJosephForm ==
    (launch.kernel = "update" /\ KernelDone)
        => \A i \in Instances :
              i + strideZ >= launch.N
                  => mem[1].P[i] = RefJoseph(GainOf(i), mem[1].in[i])

\* C7: two update launches that agree on an instance's buffers and differ in
\* another instance's leave the same state and P for it, the threads
\* scheduled alike in both
C7_CrossInstanceNonInterference ==
    (launch.kernel = "update" /\ KernelDone /\ DOMAIN mem = {1, 2})
        => \A i \in Instances :
              mem[1].in[i] = mem[2].in[i]
                  => /\ mem[1].x_in[i] = mem[2].x_in[i]
                     /\ mem[1].P[i] = mem[2].P[i]

\* C11: when a launch has finished, the memory the Numba kernel ran on and
\* the memory the CuPy kernel ran on, equal before the launch, hold the same
\* state and the same P for every instance (dim_z = 2 for update; P and R
\* need not be symmetric)
C11_StrategyEquivalence ==
    (KernelDone /\ DOMAIN mem = {1, 2} /\ mem[1].backend # mem[2].backend)
        => \A i \in Instances :
              /\ mem[1].x_in[i] = mem[2].x_in[i]
              /\ mem[1].P[i] = mem[2].P[i]

\* C12: a launch of predict never changes alpha2, F or Q of any instance, and
\* a launch of update never changes z, H or R of any instance
C12_KernelFrame ==
    \A i \in Instances :
        /\ launch.kernel = "predict"
              => /\ mem[1].alpha[i] = mem[1].in[i].alpha
                 /\ mem[1].F[i] = mem[1].in[i].F
                 /\ mem[1].Q[i] = mem[1].in[i].Q
        /\ launch.kernel = "update"
              => /\ mem[1].z_in[i] = mem[1].in[i].z
                 /\ mem[1].H[i] = mem[1].in[i].H
                 /\ mem[1].R[i] = mem[1].in[i].R

\* a predict launch over two instances has finished and has changed the P
\* of both
C12_Witness ==
    /\ launch.kernel = "predict" /\ KernelDone /\ launch.N = 2
    /\ \A i \in Instances : mem[1].P[i] # mem[1].in[i].P

\* P[row, col] = P[col, row] for all row, col < n
IsSymmetric(A, n) == \A k \in 0..(n * n - 1) : A[k] = A[(k % n) * n + (k \div n)]

\* C13: when update has finished, P of every instance whose input P and R are
\* symmetric is symmetric, for dim_z = dim_x and for dim_z < dim_x
C13_UpdateKeepsSymmetry ==
    (launch.kernel = "update" /\ KernelDone)
        => \A i \in Instances :
              (IsSymmetric(mem[1].in[i].P, dim_x) /\ IsSymmetric(mem[1].in[i].R, dim_z))
                  => IsSymmetric(mem[1].P[i], dim_x)

\* every entry of buffer A is finite
AllFinite(A) == \A k \in DOMAIN A : IsFinite(A[k])

Stores == BagToSet(mem[1].stores)

\* C15: every global store to state[i, .] or P[i, ., .] is executed by a thread
\* of the tile whose grid z coordinate is i mod strideZ, and no two distinct
\* threads store to the same global location
C15_IndexPartitioning ==
    \A s1 \in Stores :
        /\ GridZ(s1[4]) = s1[2] % strideZ
        /\ \A s2 \in Stores :
              (s1[1] = s2[1] /\ s1[2] = s2[2] /\ s1[3] = s2[3]) => s1[4] = s2[4]

C15_Witness ==
    /\ KernelDone /\ strideZ = 2 /\ launch.N = 2
    /\ \E s1, s2 \in Stores : s1[1] = "P" /\ s2[1] = "x_in" /\ GridZ(s1[4]) # GridZ(s2[4])

\* how often cell k of instance i of buffer buf has been stored to
StoreCount(buf, i, k) ==
    LET hits == {s \in Stores : s[1] = buf /\ s[2] = i /\ s[3] = k}
        RECURSIVE Total(_)
        Total(S) == IF S = {} THEN 0
                    ELSE LET s == CHOOSE e \in S : TRUE
                         IN  CopiesIn(s, mem[1].stores) + Total(S \ {s})
    IN  Total(hits)

\* C16: the grid-stride loop processes no index >= N and no index twice, and
\* when the kernel has finished every index 0..N-1 has been processed exactly
\* once: each cell of its state and of its P has been stored exactly once
C16_GridStrideCoverage ==
    /\ \A s \in Stores : s[2] \in Instances /\ StoreCount(s[1], s[2], s[3]) = 1
    /\ KernelDone
          => \A i \in Instances :
                /\ \A k \in 0..(dim_x - 1) : StoreCount("x_in", i, k) = 1
                /\ \A k \in 0..(dim_x * dim_x - 1) : StoreCount("P", i, k) = 1

C16_Witness ==
    /\ KernelDone /\ launch.N > strideZ
    /\ \A i \in Instances : StoreCount("P", i, dim_x * dim_x - 1) = 1

\* the cache that results when the calls run one after the other on an empty
\* cache and the call of thread r is the later one
SequentialCache(r) ==
    LET numba_type == SupportedTypeLookup(call.np_type).val[1]
    IN  DictSet(DictSet(EmptyDict, <<numba_type, "PREDICT">>, RaceKernel(r, "PREDICT")),
                <<numba_type, "UPDATE">>, RaceKernel(r, "UPDATE"))

\* C17: when two concurrent _populate_kernel_cache calls for one precision and
\* strategy have both finished, the predict and update entries of the cache
\* come from the same call and the cache is the one some sequential order of
\* the two calls produces
C17_RacePopulationSequential ==
    (call.op = "race" /\ call.at = <<"done", "done">> /\ call.exc = <<"none", "none">>)
        => LET cache == IF call.use_numba THEN numba_kernel_cache
                        ELSE cupy_kernel_cache
               numba_type == SupportedTypeLookup(call.np_type).val[1]
           IN  /\ \E r \in Requests :
                     /\ cache[<<numba_type, "PREDICT">>] = RaceKernel(r, "PREDICT")
                     /\ cache[<<numba_type, "UPDATE">>] = RaceKernel(r, "UPDATE")
               /\ \E r \in Requests : cache = SequentialCache(r)

\* S = H * P * transpose(H) + R on instance inputs
RefS(in) ==
    MatAdd(MatMul(MatMul(in.H, in.P, dim_z, dim_x, dim_x),
                  Transpose(in.H, dim_z, dim_x), dim_z, dim_x, dim_z),
           in.R)

\* C18 as stated: when update with dim_z = 2 has finished, P of every instance
\* whose R is all zero has a non-finite entry
C18_ZeroRGivesNonFiniteP ==
    (launch.kernel = "update" /\ dim_z = 2 /\ KernelDone)
        => \A i \in Instances :
              (\A k \in DOMAIN mem[1].in[i].R : mem[1].in[i].R[k] = Zero)
                  => ~AllFinite(mem[1].P[i])

\* C18 for a singular S: when update with dim_z = 2 has finished, P of every
\* instance whose S = H*P*H^T + R has determinant zero has a non-finite entry
C18_SingularSGivesNonFiniteP ==
    (launch.kernel = "update" /\ dim_z = 2 /\ KernelDone)
        => \A i \in Instances :
              Det(RefS(mem[1].in[i]), dim_z) = Zero => ~AllFinite(mem[1].P[i])

C18_Witness ==
    /\ launch.kernel = "update" /\ dim_z = 2 /\ KernelDone
    /\ \E i \in Instances :
          /\ Det(RefS(mem[1].in[i]), dim_z) = Zero
          /\ mem[1].in[i].P # Mat(<<0, 0, 0, 0>>)
          /\ \A k \in DOMAIN mem[1].in[i].R : mem[1].in[i].R[k] = Zero
          /\ \A k \in DOMAIN mem[1].P[i] : ~IsFinite(mem[1].P[i][k])

\* entry (r, c) of S = H*P*H^T + R as the S phase computes it from thread t's
\* tile of s_H, s_A (P*H^T) and s_R, none of which the inverse phase writes
TileS(t, r, c) ==
    FAdd(Dot([j \in 0..(dim_x - 1) |->
                FMul(Rd(mem[1], t, "s_H", xz_idx(t) + (r * dim_x + j)),
                     Rd(mem[1], t, "s_A", xx_idx(t) + (j * dim_z + c)))], dim_x),
         Rd(mem[1], t, "s_R", zz_idx(t) + (r * dim_z + c)))

\* thread t is about to read its tile of s_B for the inverse and every entry
\* of the tile is S
InverseReadSeesS(t) ==
    pc[t] = "u_inv_rd"
        => \A r, c \in 0..(dim_z - 1) :
              Rd(mem[1], t, "s_B", xx_idx(t) + (r * dim_z + c)) = TileS(t, r, c)

\* C19: in the inverse phase of update every read of the S tile by a thread
\* sees the S of the barrier before the phase, never an inverse entry that
\* another thread has stored
C19_InverseReadsSeeS ==
    launch.kernel = "update" => \A t \in Threads : InverseReadSeesS(t)

\* entry (r, c) of I - K*H as computed from thread t's tile of s_K and s_H
TileIKH(t, r, c) ==
    FSub(IF r = c THEN One ELSE Zero,
         Dot([j \in 0..(dim_z - 1) |->
                FMul(Rd(mem[1], t, "s_K", xz_idx(t) + (r * dim_z + j)),
                     Rd(mem[1], t, "s_H", xz_idx(t) + (j * dim_x + c)))], dim_z))

\* the value thread t stores to s_A[xx_idx + z_key] as K*R
TileKR(t) ==
    IF Col(t) < dim_z
    THEN Dot([j \in 0..(dim_z - 1) |->
                FMul(Rd(mem[1], t, "s_K", xz_idx(t) + (Row(t) * dim_z + j)),
                     Rd(mem[1], t, "s_R", zz_idx(t) + (j * dim_z + Col(t))))], dim_z)
    ELSE Zero

\* thread t is about to read row Col(t) of I - K*H from s_A and no thread has
\* stored K*R over it
JosephReadSeesIKH(t) ==
    pc[t] = "u_joseph"
        => \A j \in 0..(dim_x - 1) :
              Rd(mem[1], t, "s_A", xx_idx(t) + (Col(t) * dim_x + j))
                  = TileIKH(t, Col(t), j)

\* two threads of a tile that are about to store K*R to one cell of s_A store
\* the same value
KRStoresAgree(t1, t2) ==
    (/\ pc[t1] = "u_KR" /\ pc[t2] = "u_KR"
     /\ Blk(t1) = Blk(t2) /\ Tz(t1) = Tz(t2)
     /\ z_key(t1) = z_key(t2))
        => TileKR(t1) = TileKR(t2)

\* C20: in the barrier interval of the Joseph product no thread reads a cell
\* of s_A that another thread of the tile has overwritten with K*R, and no
\* two threads store different values to one cell of s_A
C20_JosephBarrierSeparation ==
    launch.kernel = "update"
        => /\ \A t \in Threads : JosephReadSeesIKH(t)
           /\ \A t1, t2 \in Threads : KRStoresAgree(t1, t2)

\* two threads of one tile
SameTile(t1, t2) == Blk(t1) = Blk(t2) /\ Tz(t1) = Tz(t2)

\* entry (row, col) of K = P*H^T * S^-1 as the gain phase computes it from
\* thread t's tiles of s_A (P*H^T) and s_B (S^-1), which the phase only reads
TileGain(t, row, col) ==
    Dot([j \in 0..(dim_z - 1) |->
           FMul(Rd(mem[1], t, "s_A", xx_idx(t) + (row * dim_z + j)),
                Rd(mem[1], t, "s_B", xx_idx(t) + (col * dim_z + j)))], dim_z)

\* thread t, admitted by "y < 2", is about to store to s_K: the cell is entry
\* (Row(t), Col(t)) of its own gain tile, and no other admitted thread of the
\* tile stores to that cell
GainStoreInTile(t) ==
    pc[t] = "u_gain"
        => /\ Col(t) < dim_z
           /\ z_key(t) < dim_x * dim_z
           /\ \A t2 \in Threads :
                 (t2 # t /\ SameTile(t, t2) /\ pc[t2] = "u_gain")
                     => z_key(t2) # z_key(t)

\* thread t of the gain tile waits at the barrier after the gain phase and
\* its entry of s_K holds sum_j A[row, j] * Sinv[col, j]
GainEntryStored(t) ==
    (pc[t] = "u_sync5" /\ Col(t) < dim_z)
        => Rd(mem[1], t, "s_K", xz_idx(t) + z_key(t)) = TileGain(t, Row(t), Col(t))

\* C21: the threads that pass the gate "y < 2" of the gain phase store exactly
\* the dim_x x dim_z entries of their instance's gain tile, each entry by one
\* thread and with the value sum_j A[row, j] * Sinv[col, j], and store to no
\* cell outside that tile, for dim_z = 1 and dim_z = 2
C21_GainGateWritesGainTile ==
    launch.kernel = "update"
        => \A t \in Threads : GainStoreInTile(t) /\ GainEntryStored(t)

\* the cells of row r of thread t's staged F tile hold row r of the F of the
\* instance t is computing
StagedRowIsCurrent(t, r) ==
    \A j \in 0..(dim_x - 1) :
        Rd(mem[1], t, "s_F", xx_idx(t) + (r * dim_x + j))
            = mem[1].F[z_idx[t]][r * dim_x + j]

\* C22: every read a predict thread makes of the staged F tile, in the state
\* product and F*P (row x) and in (F*P)*F^T (row y), sees the F of the
\* instance the thread is computing; no thread of the tile has staged the
\* next instance's F over it
C22_StagedFIsCurrent ==
    launch.kernel = "predict"
        => \A t \in Threads :
              /\ pc[t] \in {"p_state_rd", "p_FP"} => StagedRowIsCurrent(t, Row(t))
              /\ pc[t] = "p_FPFT" => StagedRowIsCurrent(t, Col(t))

\* C23: all threads of a block execute the same barriers: while a thread
\* waits at a barrier no thread of its block has returned from the kernel, so
\* every barrier is reached by the whole block, for every N and geometry
C23_BarrierConvergence ==
    \A t1, t2 \in Threads :
        (Blk(t1) = Blk(t2) /\ pc[t1] \in SyncLabels) => pc[t2] # "done"

====
